---- MODULE Spec2Model ----
(***************************************************************************)
(* Montgomery and Barrett modular multiplication benchmarks of             *)
(* moduli-comparison, with the naive "multiply then remainder" oracle.     *)
(*                                                                         *)
(* Four harnesses are modelled:                                            *)
(*   "MontgomeryA"  benchmarkMontgomery of src/montgomery.mjs              *)
(*                  (redc ends with  while (t >= PRIME) t -= PRIME,        *)
(*                   verify returns a boolean that the caller drops)       *)
(*   "MontgomeryB"  benchmarkMontgomery of src/unnamed/part_002            *)
(*                  (mask/shift redc whose final subtraction is commented  *)
(*                   out, verify throws on a mismatch)                     *)
(*   "BarrettA"     benchmarkBarrett of src/barrett.mjs                    *)
(*   "BarrettB"     benchmarkBarrett of src/montgomery.mjs                 *)
(*                                                                         *)
(* BigInt arithmetic is unbounded, so integers are TLA+ integers.  The     *)
(* BigInt operators / and % truncate toward zero; >>, << and & are         *)
(* modelled by what they do on the bits.                                   *)
(***************************************************************************)
EXTENDS Integers, Sequences, FiniteSets

VARIABLES
    harness,            \* which benchmark function is running
    PRIME,              \* its modulus argument
    pc,                 \* position in the run
    R,                  \* Montgomery radix
    R_BITS,             \* part_002: shift count of the radix
    N_PRIME,            \* -PRIME^-1 mod R
    PRIME_BIT_LENGTH,   \* Barrett: k
    BARRET_MU,          \* Barrett: floor(2^(2k) / PRIME)
    modinvCalled,       \* modinv has been invoked in this run
    x,                  \* start value of the fold / argument of a conversion
    i,                  \* number of multiplicands folded so far
    v,                  \* engine accumulator (Montgomery form for Montgomery)
    expected,           \* naive accumulator (acc * v) % PRIME
    T,                  \* argument of the last redc call, or of a direct
                        \* barrettReduce call
    result,             \* engine result / return value of the last call
    loops,              \* iterations of the correction loop in a direct
                        \* barrettReduce call
    verifyReturned,     \* value returned by verify: "none", "true", "false"
    err                 \* message of the thrown Error, "" when none

vars == <<harness, PRIME, pc, R, R_BITS, N_PRIME, PRIME_BIT_LENGTH, BARRET_MU,
          modinvCalled, x, i, v, expected, T, result, loops, verifyReturned, err>>

----------------------------------------------------------------------------
(* Bounds of the model *)

\* moduli 0..MaxN are run through the harnesses and the Montgomery functions
MaxN == 31

\* longest multiplicand sequence folded by a harness
MaxLen == 3

\* redc is called on every T in [0, TSpan * PRIME * R)
TSpan == 2

\* barrettReduce is called for every modulus 0..MaxBarrettN
MaxBarrettN == 133

MontgomeryHarnesses == {"MontgomeryA", "MontgomeryB"}
BarrettHarnesses == {"BarrettA", "BarrettB"}
Harnesses == MontgomeryHarnesses \cup BarrettHarnesses

----------------------------------------------------------------------------
(* BigInt operators *)

Abs(a) == IF a < 0 THEN -a ELSE a

\* BigInt a / b : quotient truncated toward zero
TruncDiv(a, b) ==
    LET q == Abs(a) \div Abs(b)
    IN  IF (a < 0) # (b < 0) THEN -q ELSE q

\* BigInt a % b : remainder with the sign of the dividend
Rem(a, b) == a - b * TruncDiv(a, b)

\* 2n ** k
RECURSIVE Pow2(_)
Pow2(k) == IF k <= 0 THEN 1 ELSE 2 * Pow2(k - 1)

\* a >> k
ShiftRight(a, k) == a \div Pow2(k)

\* a << k
ShiftLeft(a, k) == a * Pow2(k)

\* a & b on non-negative BigInts, bit by bit
RECURSIVE BitAnd(_, _)
BitAnd(a, b) ==
    IF a = 0 \/ b = 0 THEN 0
    ELSE (IF a % 2 = 1 /\ b % 2 = 1 THEN 1 ELSE 0)
         + 2 * BitAnd(a \div 2, b \div 2)

\* n.toString(2).length for n >= 0 ("0" has one digit)
RECURSIVE toString2Length(_)
toString2Length(n) == IF n < 2 THEN 1 ELSE 1 + toString2Length(n \div 2)

----------------------------------------------------------------------------
(* Context derivation *)

\* montgomery.mjs log2BigInt: the loop  while (n > 1n) { n >>= 1n; result += 1n }
RECURSIVE log2Loop(_, _)
log2Loop(n, res) == IF n > 1 THEN log2Loop(ShiftRight(n, 1), res + 1) ELSE res

\* montgomery.mjs log2BigInt throws "Input must be a positive BigInt"
log2BigIntThrowsA(n) == n <= 0

log2BigIntA(n) == IF n = 1 THEN 0 ELSE log2Loop(n, 0)

\* part_002 log2BigInt
log2BigIntB(n) == toString2Length(n)

\* Extended Euclidean algorithm
RECURSIVE egcdLoop(_, _, _, _, _, _)
egcdLoop(old_r, r, old_s, s, old_t, t) ==
    IF r = 0 THEN [gcd |-> old_r, x |-> old_s, y |-> old_t]
    ELSE LET quotient == TruncDiv(old_r, r)
         IN  egcdLoop(r, old_r - quotient * r,
                      s, old_s - quotient * s,
                      t, old_t - quotient * t)

egcd(a, b) == egcdLoop(a, b, 1, 0, 0, 1)

\* modinv throws "Modular inverse does not exist"
modinvThrows(a, m) == egcd(a, m).gcd # 1

modinv(a, m) == Rem(Rem(egcd(a, m).x, m) + m, m)

\* montgomery.mjs:  R = 2n ** (log2BigInt(PRIME) + 1n)
R_init_A_noPlusOne == Pow2(log2BigIntA(PRIME))

R_init_A == Pow2(log2BigIntA(PRIME) + 1)

\* part_002:  R = 2n ** log2BigInt(PRIME),  R_BITS = log2BigInt(PRIME)
R_init_B == Pow2(log2BigIntB(PRIME))

R_BITS_init_B == log2BigIntB(PRIME)

\* N_PRIME = (-modinv(PRIME, R) + R) % R
N_PRIME_init_noNegate(r) == Rem(modinv(PRIME, r) + r, r)

N_PRIME_init(r) == Rem(-modinv(PRIME, r) + r, r)

\* Barrett:  PRIME_BIT_LENGTH = BigInt(PRIME.toString(2).length)
PRIME_BIT_LENGTH_floorLog2 == toString2Length(PRIME) - 1

PRIME_BIT_LENGTH_init == toString2Length(PRIME)

\* Barrett:  BARRET_MU = 2n ** (2n * PRIME_BIT_LENGTH) / PRIME
BARRET_MU_init(k) == TruncDiv(Pow2(2 * k), PRIME)

----------------------------------------------------------------------------
(* Montgomery engine of montgomery.mjs *)

\* while (t >= PRIME) t -= PRIME
RECURSIVE subtractWhile(_)
subtractWhile(t) == IF t >= PRIME THEN subtractWhile(t - PRIME) ELSE t

\* m = ((T % R) * N_PRIME) % R
redcM_A(TT) == Rem(Rem(TT, R) * N_PRIME, R)

\* T + m * PRIME, the dividend of the division by R
redcSumA(TT) == TT + redcM_A(TT) * PRIME

redcA(TT) == subtractWhile(TruncDiv(redcSumA(TT), R))

toMontgomeryA(a) == Rem(a * R, PRIME)

fromMontgomeryA(a) == redcA(a)

montgomeryMultiplyA(a, b) == redcA(a * b)

(* Montgomery engine of part_002 *)

R_BITMASK == R - 1

\* m = ((T & R_BITMASK) * N_PRIME) & R_BITMASK
redcM_B(TT) == BitAnd(BitAnd(TT, R_BITMASK) * N_PRIME, R_BITMASK)

redcSumB(TT) == TT + redcM_B(TT) * PRIME

\* the final  if (t >= PRIME) t -= PRIME  is commented out
redcB(TT) == ShiftRight(redcSumB(TT), R_BITS)

toMontgomeryB_timesBits(a) == Rem(a * R_BITS, PRIME)

toMontgomeryB(a) == Rem(ShiftLeft(a, R_BITS), PRIME)

fromMontgomeryB(a) == redcB(a)

montgomeryMultiplyB(a, b) == redcB(a * b)

(* Dispatch on the running harness *)

redc(TT) == IF harness = "MontgomeryA" THEN redcA(TT) ELSE redcB(TT)

redcSum(TT) == IF harness = "MontgomeryA" THEN redcSumA(TT) ELSE redcSumB(TT)

toMontgomery(a) ==
    IF harness = "MontgomeryA" THEN toMontgomeryA(a) ELSE toMontgomeryB(a)

fromMontgomery(a) ==
    IF harness = "MontgomeryA" THEN fromMontgomeryA(a) ELSE fromMontgomeryB(a)

montgomeryMultiply(a, b) ==
    IF harness = "MontgomeryA"
    THEN montgomeryMultiplyA(a, b) ELSE montgomeryMultiplyB(a, b)

----------------------------------------------------------------------------
(* Barrett engine (the two copies of barrettReduce are the same text) *)

\* q = ((x >> PRIME_BIT_LENGTH) * BARRET_MU) >> PRIME_BIT_LENGTH
barrettQ(a) ==
    ShiftRight(ShiftRight(a, PRIME_BIT_LENGTH) * BARRET_MU, PRIME_BIT_LENGTH)

\* r = x - q * PRIME, before the correction loop
barrettCandidate(a) == a - barrettQ(a) * PRIME

\* while (r >= PRIME) r -= PRIME : the value left and the iterations taken
RECURSIVE barrettLoop(_, _)
barrettLoop(r, n) ==
    IF r >= PRIME THEN barrettLoop(r - PRIME, n + 1) ELSE [r |-> r, n |-> n]

barrettReduce_singleIf(a) ==
    LET r == barrettCandidate(a)
    IN  IF r >= PRIME THEN r - PRIME ELSE r

barrettReduce(a) == barrettLoop(barrettCandidate(a), 0).r

barrettIterations(a) == barrettLoop(barrettCandidate(a), 0).n

----------------------------------------------------------------------------
(* Harness runs *)

Blank ==
    /\ pc = "start"
    /\ R = 0 /\ R_BITS = 0 /\ N_PRIME = 0
    /\ PRIME_BIT_LENGTH = 0 /\ BARRET_MU = 0
    /\ modinvCalled = FALSE
    /\ x = 0 /\ i = 0 /\ v = 0 /\ expected = 0 /\ T = 0 /\ result = 0
    /\ loops = 0
    /\ verifyReturned = "none"
    /\ err = ""

Init ==
    /\ harness \in Harnesses
    /\ PRIME \in 0..MaxN
    /\ Blank

Throw(msg) == pc' = "error" /\ err' = msg

\* montgomery.mjs lines 2-6
ConstructMontgomeryA ==
    /\ harness = "MontgomeryA" /\ pc = "start"
    /\ IF log2BigIntThrowsA(PRIME)
       THEN /\ Throw("Input must be a positive BigInt")
            /\ UNCHANGED <<R, N_PRIME, modinvCalled>>
       ELSE /\ R' = R_init_A
            /\ modinvCalled' = TRUE
            /\ IF modinvThrows(PRIME, R_init_A)
               THEN Throw("Modular inverse does not exist") /\ UNCHANGED N_PRIME
               ELSE /\ N_PRIME' = N_PRIME_init(R_init_A)
                    /\ pc' = "ready" /\ UNCHANGED err
    /\ UNCHANGED <<harness, PRIME, R_BITS, PRIME_BIT_LENGTH, BARRET_MU, x, i, v,
                   expected, T, result, loops, verifyReturned>>

\* part_002 lines 2-7
ConstructMontgomeryB ==
    /\ harness = "MontgomeryB" /\ pc = "start"
    /\ R' = R_init_B
    /\ R_BITS' = R_BITS_init_B
    /\ modinvCalled' = TRUE
    /\ IF modinvThrows(PRIME, R_init_B)
       THEN Throw("Modular inverse does not exist") /\ UNCHANGED N_PRIME
       ELSE /\ N_PRIME' = N_PRIME_init(R_init_B)
            /\ pc' = "ready" /\ UNCHANGED err
    /\ UNCHANGED <<harness, PRIME, PRIME_BIT_LENGTH, BARRET_MU, x, i, v,
                   expected, T, result, loops, verifyReturned>>

\* barrett.mjs lines 7-9, montgomery.mjs lines 129-131
ConstructBarrett ==
    /\ harness \in BarrettHarnesses /\ pc = "start"
    /\ PRIME_BIT_LENGTH' = PRIME_BIT_LENGTH_init
    /\ IF PRIME = 0
       THEN Throw("Division by zero") /\ UNCHANGED BARRET_MU
       ELSE /\ BARRET_MU' = BARRET_MU_init(PRIME_BIT_LENGTH_init)
            /\ pc' = "ready" /\ UNCHANGED err
    /\ UNCHANGED <<harness, PRIME, R, R_BITS, N_PRIME, modinvCalled, x, i, v,
                   expected, T, result, loops, verifyReturned>>

(* verify.  The code folds the whole values array through the engine and    *)
(* then through the naive reduce; each multiplicand is used once by each    *)
(* fold, so the model draws it at the step that consumes it and advances    *)
(* both accumulators.                                                       *)

\* x_mont = toMontgomery(x); the naive reduce starts at x
VerifyBegin ==
    /\ harness \in MontgomeryHarnesses /\ pc = "ready"
    /\ \E x0 \in 0..(PRIME - 1) :
          /\ x' = x0
          /\ v' = toMontgomery(x0)
          /\ expected' = x0
    /\ i' = 0
    /\ pc' = "fold"
    /\ UNCHANGED <<harness, PRIME, R, R_BITS, N_PRIME, PRIME_BIT_LENGTH,
                   BARRET_MU, modinvCalled, T, result, loops, verifyReturned, err>>

\* v = montgomeryMultiply(v, c) with c = toMontgomery(value);
\* expected = (acc * value) % PRIME
VerifyStep ==
    /\ harness \in MontgomeryHarnesses /\ pc = "fold"
    /\ i < MaxLen
    /\ \E value \in 0..(PRIME - 1) :
          /\ T' = v * toMontgomery(value)
          /\ v' = montgomeryMultiply(v, toMontgomery(value))
          /\ expected' = Rem(expected * value, PRIME)
    /\ i' = i + 1
    /\ UNCHANGED <<harness, PRIME, pc, R, R_BITS, N_PRIME, PRIME_BIT_LENGTH,
                   BARRET_MU, modinvCalled, x, result, loops, verifyReturned, err>>

\* result = fromMontgomery(v)
VerifyConvertBack ==
    /\ harness \in MontgomeryHarnesses /\ pc = "fold"
    /\ T' = v
    /\ result' = fromMontgomery(v)
    /\ pc' = "compare"
    /\ UNCHANGED <<harness, PRIME, R, R_BITS, N_PRIME, PRIME_BIT_LENGTH,
                   BARRET_MU, modinvCalled, x, i, v, expected, loops,
                   verifyReturned, err>>

\* montgomery.mjs line 119 returns result === expected; the call on line 11
\* drops the value and benchmarkMontgomery returns
VerifyReturnA ==
    /\ harness = "MontgomeryA" /\ pc = "compare"
    /\ verifyReturned' = IF result = expected THEN "true" ELSE "false"
    /\ pc' = "done"
    /\ UNCHANGED <<harness, PRIME, R, R_BITS, N_PRIME, PRIME_BIT_LENGTH,
                   BARRET_MU, modinvCalled, x, i, v, expected, T, result,
                   loops, err>>

VerifyCheckB_returnOnly ==
    /\ harness = "MontgomeryB" /\ pc = "compare"
    /\ verifyReturned' = IF result = expected THEN "true" ELSE "false"
    /\ pc' = "done"
    /\ UNCHANGED <<harness, PRIME, R, R_BITS, N_PRIME, PRIME_BIT_LENGTH,
                   BARRET_MU, modinvCalled, x, i, v, expected, T, result,
                   loops, err>>

\* part_002 lines 94-103: throw on a mismatch, else return true
VerifyCheckB ==
    /\ harness = "MontgomeryB" /\ pc = "compare"
    /\ IF expected # result
       THEN Throw("Montgomery multiplication failed") /\ UNCHANGED verifyReturned
       ELSE verifyReturned' = "true" /\ pc' = "done" /\ UNCHANGED err
    /\ UNCHANGED <<harness, PRIME, R, R_BITS, N_PRIME, PRIME_BIT_LENGTH,
                   BARRET_MU, modinvCalled, x, i, v, expected, T, result, loops>>

\* both reduces of benchmarkBarrett start at x
BarrettBegin ==
    /\ harness \in BarrettHarnesses /\ pc = "ready"
    /\ \E x0 \in 0..(PRIME - 1) :
          /\ x' = x0
          /\ v' = x0
          /\ expected' = x0
    /\ i' = 0
    /\ pc' = "fold"
    /\ UNCHANGED <<harness, PRIME, R, R_BITS, N_PRIME, PRIME_BIT_LENGTH,
                   BARRET_MU, modinvCalled, T, result, loops, verifyReturned, err>>

\* acc = barrettReduce(acc * value); expected = (acc * value) % PRIME
BarrettStep ==
    /\ harness \in BarrettHarnesses /\ pc = "fold"
    /\ i < MaxLen
    /\ \E value \in 0..(PRIME - 1) :
          /\ v' = barrettReduce(v * value)
          /\ expected' = Rem(expected * value, PRIME)
    /\ i' = i + 1
    /\ UNCHANGED <<harness, PRIME, pc, R, R_BITS, N_PRIME, PRIME_BIT_LENGTH,
                   BARRET_MU, modinvCalled, x, T, result, loops,
                   verifyReturned, err>>

\* barrettOut
BarrettOut ==
    /\ harness \in BarrettHarnesses /\ pc = "fold"
    /\ result' = v
    /\ pc' = "compare"
    /\ UNCHANGED <<harness, PRIME, R, R_BITS, N_PRIME, PRIME_BIT_LENGTH,
                   BARRET_MU, modinvCalled, x, i, v, expected, T, loops,
                   verifyReturned, err>>

\* if (barrettOut !== expected) throw new Error("barrett reduction is incorrect")
BarrettCheck ==
    /\ harness \in BarrettHarnesses /\ pc = "compare"
    /\ IF result # expected
       THEN Throw("barrett reduction is incorrect")
       ELSE pc' = "done" /\ UNCHANGED err
    /\ UNCHANGED <<harness, PRIME, R, R_BITS, N_PRIME, PRIME_BIT_LENGTH,
                   BARRET_MU, modinvCalled, x, i, v, expected, T, result,
                   loops, verifyReturned>>

\* the driver's loops call the next benchmark once one has returned; a thrown
\* Error is caught nowhere and ends the driver
DriverNext ==
    /\ pc = "done"
    /\ harness' \in Harnesses
    /\ PRIME' \in 0..MaxN
    /\ pc' = "start"
    /\ R' = 0 /\ R_BITS' = 0 /\ N_PRIME' = 0
    /\ PRIME_BIT_LENGTH' = 0 /\ BARRET_MU' = 0
    /\ modinvCalled' = FALSE
    /\ x' = 0 /\ i' = 0 /\ v' = 0 /\ expected' = 0 /\ T' = 0 /\ result' = 0
    /\ loops' = 0
    /\ verifyReturned' = "none"
    /\ err' = ""

Next ==
    \/ ConstructMontgomeryA
    \/ ConstructMontgomeryB
    \/ ConstructBarrett
    \/ VerifyBegin
    \/ VerifyStep
    \/ VerifyConvertBack
    \/ VerifyReturnA
    \/ VerifyCheckB
    \/ BarrettBegin
    \/ BarrettStep
    \/ BarrettOut
    \/ BarrettCheck
    \/ DriverNext

Spec == Init /\ [][Next]_vars

----------------------------------------------------------------------------
(* The Montgomery functions called directly on a constructed context *)

InitFn ==
    /\ harness \in MontgomeryHarnesses
    /\ PRIME \in 0..MaxN
    /\ Blank

\* redc(T)
CallRedc ==
    /\ harness \in MontgomeryHarnesses /\ pc = "ready"
    /\ \E T0 \in 0..(TSpan * PRIME * R - 1) :
          /\ T' = T0
          /\ result' = redc(T0)
    /\ pc' = "redc"
    /\ UNCHANGED <<harness, PRIME, R, R_BITS, N_PRIME, PRIME_BIT_LENGTH,
                   BARRET_MU, modinvCalled, x, i, v, expected, loops,
                   verifyReturned, err>>

\* fromMontgomery(toMontgomery(x))
CallRoundTrip ==
    /\ harness \in MontgomeryHarnesses /\ pc = "ready"
    /\ \E x0 \in 0..(PRIME - 1) :
          /\ x' = x0
          /\ T' = toMontgomery(x0)
          /\ result' = fromMontgomery(toMontgomery(x0))
    /\ pc' = "roundtrip"
    /\ UNCHANGED <<harness, PRIME, R, R_BITS, N_PRIME, PRIME_BIT_LENGTH,
                   BARRET_MU, modinvCalled, i, v, expected, loops,
                   verifyReturned, err>>

NextFn ==
    \/ ConstructMontgomeryA
    \/ ConstructMontgomeryB
    \/ CallRedc
    \/ CallRoundTrip

SpecFn == InitFn /\ [][NextFn]_vars

(* barrettReduce called directly on every x in [0, PRIME^2) *)

InitReduce ==
    /\ harness \in BarrettHarnesses
    /\ PRIME \in 0..MaxBarrettN
    /\ Blank

CallBarrettReduce ==
    /\ harness \in BarrettHarnesses /\ pc = "ready"
    /\ \E x0 \in 0..(PRIME * PRIME - 1) :
          /\ T' = x0
          /\ result' = barrettReduce(x0)
          /\ loops' = barrettIterations(x0)
    /\ pc' = "reduce"
    /\ UNCHANGED <<harness, PRIME, R, R_BITS, N_PRIME, PRIME_BIT_LENGTH,
                   BARRET_MU, modinvCalled, x, i, v, expected,
                   verifyReturned, err>>

NextReduce ==
    \/ ConstructBarrett
    \/ CallBarrettReduce

SpecReduce == InitReduce /\ [][NextReduce]_vars

----------------------------------------------------------------------------
(* Properties *)

IsOdd(n) == n % 2 = 1

IsOddPrime(n) == n > 2 /\ \A d \in 2..(n - 1) : n % d # 0

\* C1: for an odd prime modulus, a start value and multiplicands in
\* [0, PRIME), the Montgomery fold converted back equals the naive fold, in
\* both Montgomery implementations.
C1_MontgomeryFoldEqualsNaive ==
    (harness \in MontgomeryHarnesses /\ IsOddPrime(PRIME) /\ pc = "compare")
        => result = expected

\* C2: for every positive modulus, the Barrett fold equals the naive fold at
\* every step and at the end, and "barrett reduction is incorrect" is never
\* thrown.
C2_BarrettFoldEqualsNaive ==
    /\ (harness \in BarrettHarnesses /\ PRIME >= 1 /\ pc = "fold")
          => (v = expected /\ 0 <= v /\ v < PRIME)
    /\ (harness \in BarrettHarnesses /\ PRIME >= 1 /\ pc \in {"compare", "done"})
          => result = expected
    /\ err # "barrett reduction is incorrect"

C2_Witness ==
    /\ harness \in BarrettHarnesses /\ pc = "done"
    /\ PRIME % 2 = 0 /\ i >= 2 /\ x > 1 /\ result = expected /\ result > 1

\* C3: for an odd modulus and T in [0, PRIME * R), redc returns a value in
\* [0, PRIME) congruent to T * R^-1 modulo PRIME, for every redc.
C3_RedcCanonical ==
    (pc = "redc" /\ IsOdd(PRIME) /\ PRIME >= 3 /\ T < PRIME * R)
        => /\ 0 <= result /\ result < PRIME
           /\ (result * R - T) % PRIME = 0

\* C4: fromMontgomery(toMontgomery(x)) = x for every odd modulus and every x
\* in [0, PRIME), in both Montgomery implementations.
C4_RoundTrip ==
    (pc = "roundtrip" /\ IsOdd(PRIME)) => result = x

C4_Witness ==
    /\ pc = "roundtrip" /\ harness = "MontgomeryB"
    /\ PRIME >= 3 /\ x = PRIME - 1 /\ T # x /\ result = x

\* C5: benchmarkMontgomery with an even modulus fails by input validation
\* before modinv is invoked.
C5_EvenModulusRejectedBeforeModinv ==
    (harness \in MontgomeryHarnesses /\ PRIME > 0 /\ PRIME % 2 = 0 /\ pc # "start")
        => (pc = "error" /\ ~modinvCalled)

\* C6: in every harness a result that differs from the naive result makes the
\* run throw, and a thrown Error ends the driver: no benchmark runs after it.
C6_MismatchAborts ==
    [][ /\ (pc = "compare" /\ result # expected) => (pc' = "error" /\ err' # "")
        /\ (pc = "error") => (pc' = "error") ]_vars

C6_Witness ==
    /\ pc = "error" /\ result # expected
    /\ err = "Montgomery multiplication failed"

\* C7: for an odd positive modulus the derived context has R a power of two
\* with PRIME < R <= 2 * PRIME, N_PRIME in [0, R) with
\* PRIME * N_PRIME = -1 (mod R), and both derivations of R agree.
C7_ContextDerivation ==
    (harness \in MontgomeryHarnesses /\ IsOdd(PRIME) /\ pc # "start")
        => /\ pc # "error"
           /\ \E k \in 1..(PRIME + 1) : R = 2 ^ k
           /\ PRIME < R /\ R <= 2 * PRIME
           /\ 0 <= N_PRIME /\ N_PRIME < R
           /\ (PRIME * N_PRIME) % R = R - 1
           /\ R = R_init_A /\ R = R_init_B
           /\ N_PRIME = N_PRIME_init(R_init_A)
           /\ N_PRIME = N_PRIME_init(R_init_B)

C7_Witness ==
    /\ harness = "MontgomeryA" /\ pc = "ready"
    /\ PRIME = 29 /\ R = 32 /\ N_PRIME = 11

\* C8 (as amended): for every positive modulus and x in [0, PRIME^2) the
\* candidate r = x - q * PRIME satisfies 0 <= r < 4 * PRIME, so the correction
\* loop runs at most 3 times, and leaves x mod PRIME.
C8_AtMostThreeIterations ==
    (pc = "reduce" /\ PRIME >= 1)
        => /\ 0 <= barrettCandidate(T) /\ barrettCandidate(T) < 4 * PRIME
           /\ loops <= 3
           /\ result = T % PRIME

C8_Witness ==
    pc = "reduce" /\ loops = 3 /\ barrettCandidate(T) >= 3 * PRIME

\* C8 (as claimed): 0 <= r < 3 * PRIME, so the correction loop runs at most
\* 2 times.
C8_AtMostTwoIterations ==
    (pc = "reduce" /\ PRIME >= 1)
        => /\ 0 <= barrettCandidate(T) /\ barrettCandidate(T) < 3 * PRIME
           /\ loops <= 2

\* C9: for an odd modulus and every non-negative T, T + m * PRIME is an exact
\* multiple of R: the division by R and the right shift by R_BITS lose nothing.
C9_RedcDivisionExact ==
    (pc = "redc" /\ IsOdd(PRIME))
        => /\ redcSum(T) % R = 0
           /\ harness = "MontgomeryA"
                 => TruncDiv(redcSumA(T), R) * R = redcSumA(T)
           /\ harness = "MontgomeryB"
                 => ShiftLeft(ShiftRight(redcSumB(T), R_BITS), R_BITS) = redcSumB(T)

C9_Witness ==
    /\ pc = "redc" /\ harness = "MontgomeryB"
    /\ T >= PRIME * R /\ redcM_B(T) > 0 /\ PRIME >= 3

\* C10: during the Montgomery fold every argument of redc (each product
\* acc * c and the accumulator given to fromMontgomery) lies in [0, PRIME * R).
C10_RedcArgumentInRange ==
    (harness \in MontgomeryHarnesses /\ pc \in {"fold", "compare"})
        => (0 <= T /\ T < PRIME * R)

====
